---- MODULE Spec2Model ----
(***************************************************************************)
(* Seat reservation core of movie-ticket-system (Django REST).             *)
(*                                                                         *)
(* The model covers BookSeatView.post and CancelBookingView.post           *)
(* (src/movies/views.py), the seat validation of BookingCreateSerializer   *)
(* (src/movies/serializers.py) and the Booking table with its              *)
(* unique_together constraint (src/movies/models.py).                      *)
(*                                                                         *)
(* Store semantics: a read-committed relational store with row locks.      *)
(*  - a statement reads committed rows only;                               *)
(*  - a row inserted inside transaction.atomic() is invisible to other     *)
(*    requests until the block exits (commit);                             *)
(*  - the unique index on (show, seat_number, status) is checked when the  *)
(*    INSERT / UPDATE statement runs; an INSERT whose key equals the key   *)
(*    of another request's uncommitted INSERT waits for that request;      *)
(*  - select_for_update() locks the rows the query returns; a query that   *)
(*    returns no row locks nothing.  The only branch of book() that holds  *)
(*    such a lock returns at once, so the lock is never held across a      *)
(*    second statement and needs no state of its own.                      *)
(* Every request is a sequence of steps; steps of different requests       *)
(* interleave freely.                                                      *)
(***************************************************************************)
EXTENDS Integers, FiniteSets, Sequences, TLC

\* ---------------------------------------------------------------- bounds
NReq == 3           \* client sessions, each sends one request at a time
NUsers == 2         \* authenticated users
TotalSeats == 2     \* total_seats of show 1
MaxBookings == 2    \* Booking rows ever inserted

Reqs == 1..NReq
Users == 1..NUsers

\* request.user of the requests of session r (sessions may share a user)
UserOf(r) == ((r - 1) % NUsers) + 1

\* ---------------------------------------------------------------- store
\* Show table: show 1 with TotalSeats seats and show 2 with a single seat; the
\* table never changes.  Show id 3 is used by requests and is absent.
Shows == {1, 2}
ShowIds == {1, 2, 3}
total_seats == [s \in Shows |-> IF s = 1 THEN TotalSeats ELSE 1]

STATUS_CHOICES == {"booked", "cancelled"}

NoBooking == [id |-> 0, user |-> 0, show |-> 0, seat_number |-> 0, status |-> "none"]
NoResp == [status |-> 0, error |-> "", booking |-> NoBooking]

\* request bodies: seat numbers below, inside and above 1..total_seats
SeatInputs == 0..(TotalSeats + 1)
BookingIds == 1..(MaxBookings + 1)

\* path and body of a book request: every seat number from 0 to one above
\* the show's total_seats; for the absent show one seat number that no show
\* accepts and one that every show accepts
BookInputs ==
    {i \in [show_id : Shows, seat_number : SeatInputs] :
        i.seat_number <= total_seats[i.show_id] + 1}
      \cup {[show_id |-> s, seat_number |-> n] : s \in ShowIds \ Shows, n \in {0, 1}}

VARIABLES
    bookings,   \* committed rows of the Booking table
    nextId,     \* id sequence of the Booking table
    req,        \* per session: the request in flight, its position and locals
    last        \* the response returned by the step just taken, until it is
                \* delivered; written by the views, read by no step

vars == <<bookings, nextId, req, last>>

\* solo, alone, full and race record the history of a request in flight; no
\* step of the program reads them:
\*   solo: no other request has run since it arrived
\*   alone, of a book request that passed validation: no other book request
\*         for the same seat of the same show has been in flight since it
\*         arrived
\*   full: the show was full when it arrived and no cancel of the show has
\*         been saved since
\*   race, of a book request for a seat:
\*     "open"  the seat was free when it arrived; since then no request has
\*             booked the seat and no cancel of the seat has been saved
\*     "lost"  the seat was free when it arrived; since then another request
\*             has booked the seat, and no cancel of the seat has been saved
\*     "taken" the seat had an active booking when it arrived and no cancel
\*             of the seat has been saved since
\*     "void"  anything else
\*   race, of a cancel request that fetched a booked booking:
\*     "open"  no other request has cancelled the booking since the fetch
\*     "lost"  another request has cancelled the booking since the fetch
Idle == [kind |-> "none", pc |-> "idle", show_id |-> 0, seat_number |-> 0,
         booking_id |-> 0, booking |-> NoBooking,
         solo |-> FALSE, alone |-> FALSE, full |-> FALSE, race |-> "void"]

\* the answer of a step: the request as it was when answered (booking is the
\* row it fetched or inserted) and the response
NoLast == [user |-> 0, kind |-> "none", show_id |-> 0, seat_number |-> 0,
           booking_id |-> 0, booking |-> NoBooking,
           solo |-> FALSE, alone |-> FALSE, full |-> FALSE, race |-> "void",
           resp |-> NoResp]

InFlight(r) == req[r].pc # "idle"

\* variant: the status filter is missing
ActiveFor_anystatus(rows, show, seat) ==
    {b \in rows : b.show = show /\ b.seat_number = seat}

\* Booking.objects.filter(show=.., seat_number=.., status="booked")
ActiveFor(rows, show, seat) ==
    {b \in rows : b.show = show /\ b.seat_number = seat /\ b.status = "booked"}

\* Booking.objects.filter(show=.., status="booked").count()
total_booked(rows, show) ==
    Cardinality({b \in rows : b.show = show /\ b.status = "booked"})

\* ShowSerializer.get_available_seats
get_available_seats(rows, show) == total_seats[show] - total_booked(rows, show)

\* ShowSerializer (a ModelSerializer): the columns of the show and the
\* available-seat count read when the response is built
ShowSerializer(rows, show) ==
    [id |-> show, total_seats |-> total_seats[show],
     available_seats |-> get_available_seats(rows, show)]

\* BookingSerializer(booking).data.  The class derives from
\* serializers.Serializer, which serializes the fields declared on the class
\* and does not read Meta.fields: the data holds show_details and username
\* (the user is identified by its number here) and no column of the booking.
BookingSerializer(rows, b) ==
    [show_details |-> ShowSerializer(rows, b.show), username |-> b.user]

\* str(e) of the exceptions the store raises, by the name of the exception
StoreErrors == {"IntegrityError", "OperationalError"}

\* f"Booking failed: {str(e)}" and f"Cancellation failed: {str(e)}"
failure_body(kind, e) ==
    (IF kind = "book" THEN "Booking failed: " ELSE "Cancellation failed: ") \o e

\* variant: the comparison with total_seats is missing
validate_seat_number_nomax(value, show_id) ==
    /\ value >= 1
    /\ show_id \in Shows

\* variant: min_value=0
validate_seat_number_nomin(value, show_id) ==
    /\ value >= 0
    /\ show_id \in Shows
    /\ ~(value > total_seats[show_id])

\* BookingCreateSerializer: IntegerField(min_value=1) and validate_seat_number
validate_seat_number(value, show_id) ==
    /\ value >= 1
    /\ show_id \in Shows
    /\ ~(value > total_seats[show_id])

\* variant: the index covers the booked rows only
UniqueViolation_bookedonly(rows, b) ==
    /\ b.status = "booked"
    /\ \E o \in rows : /\ o.id # b.id
                       /\ o.show = b.show
                       /\ o.seat_number = b.seat_number
                       /\ o.status = b.status

\* variant: no unique_together on the table
UniqueViolation_off(rows, b) == FALSE

\* unique_together = ["show", "seat_number", "status"]: would writing row
\* `b` collide with another committed row?
UniqueViolation(rows, b) ==
    \E o \in rows : /\ o.id # b.id
                    /\ o.show = b.show
                    /\ o.seat_number = b.seat_number
                    /\ o.status = b.status

\* variant: the INSERT also waits for a request that is about to insert the
\* same key
PendingConflict_mutual(r, b) ==
    \E o \in Reqs \ {r} : /\ req[o].pc \in {"create", "commit"}
                          /\ req[o].kind = "book"
                          /\ req[o].show_id = b.show
                          /\ req[o].seat_number = b.seat_number

\* variant: the index does not see uncommitted rows
PendingConflict_off(r, b) == FALSE

\* an uncommitted INSERT of another request holds the same unique key
PendingConflict(r, b) ==
    \E o \in Reqs \ {r} : /\ req[o].pc = "commit"
                          /\ req[o].booking.show = b.show
                          /\ req[o].booking.seat_number = b.seat_number
                          /\ req[o].booking.status = b.status

Others(r) == {o \in Reqs \ {r} : InFlight(o)}

\* what the history fields of the requests in flight are measured against
SeatInShow(s, n) == s \in Shows /\ n \in 1..total_seats[s]
SeatActive(s, n) ==
    \E b \in bookings : b.show = s /\ b.seat_number = n /\ b.status = "booked"
ShowFull(s) ==
    /\ s \in Shows
    /\ Cardinality({b \in bookings : b.show = s /\ b.status = "booked"}) >= total_seats[s]

\* the history fields of request q after the cancel of row b has been saved
Cancelled(q, b) ==
    IF q.kind = "book" /\ q.show_id = b.show
      THEN [q EXCEPT !.full = FALSE,
                     !.race = IF q.seat_number = b.seat_number THEN "void" ELSE @]
      ELSE IF q.kind = "cancel" /\ q.booking_id = b.id /\ q.race = "open"
             THEN [q EXCEPT !.race = "lost"]
             ELSE q

\* the response of request `q` of session r
Response(r, q, st, err, bk) ==
    [user |-> UserOf(r), kind |-> q.kind, show_id |-> q.show_id,
     seat_number |-> q.seat_number, booking_id |-> q.booking_id,
     booking |-> q.booking, solo |-> q.solo, alone |-> q.alone, full |-> q.full,
     race |-> q.race,
     resp |-> [status |-> st, error |-> err, booking |-> bk]]

\* return Response(...) of a request in flight: the session is free again
Finish(r, st, err, bk) ==
    /\ req' = [req EXCEPT ![r] = Idle]
    /\ last' = Response(r, req[r], st, err, bk)

Goto(r, pc) ==
    /\ req' = [req EXCEPT ![r].pc = pc]
    /\ last' = NoLast

\* book requests p and q name the same seat of the same show
SameSeat(p, q) ==
    /\ p.kind = "book" /\ q.kind = "book"
    /\ p.show_id = q.show_id /\ p.seat_number = q.seat_number

\* a request arrives and stays in flight: the others are no longer alone
Arrive(r, q) ==
    /\ req' = [o \in Reqs |->
                 IF o = r THEN q
                 ELSE [req[o] EXCEPT !.solo = FALSE,
                                     !.alone = @ /\ ~SameSeat(req[o], q)]]
    /\ last' = NoLast

\* a request is answered by its first step
Reject(r, q, st, err) ==
    /\ req' = [o \in Reqs |-> [req[o] EXCEPT !.solo = FALSE]]
    /\ last' = Response(r, q, st, err, NoBooking)

Init ==
    /\ bookings = {}
    /\ nextId = 1
    /\ req = [r \in Reqs |-> Idle]
    /\ last = NoLast

\* ------------------------------------------------------- BookSeatView.post
\* variant: the serializer runs before the show is looked up
BookRequest_validatefirst(r) ==
    /\ last = NoLast
    /\ req[r].pc = "idle"
    /\ (nextId - 1) + Cardinality({o \in Reqs : req[o].pc \in {"exists", "count", "create"}})
          < MaxBookings
    /\ \E i \in BookInputs :
          LET s == i.show_id
              n == i.seat_number
              q == [Idle EXCEPT !.kind = "book", !.pc = "exists",
                                !.show_id = s, !.seat_number = n,
                                !.solo = (Others(r) = {}),
                                !.alone = /\ validate_seat_number(n, s)
                                          /\ \A o \in Others(r) :
                                                ~(/\ req[o].kind = "book"
                                                  /\ req[o].show_id = s
                                                  /\ req[o].seat_number = n),
                                !.full = ShowFull(s),
                                !.race = IF ~SeatInShow(s, n) THEN "void"
                                         ELSE IF SeatActive(s, n) THEN "taken"
                                         ELSE "open"]
          IN IF ~validate_seat_number(n, s)
               THEN Reject(r, q, 400, "invalid seat_number")
               ELSE IF s \notin Shows
                      THEN Reject(r, q, 404, "Show not found")
                      ELSE Arrive(r, q)
    /\ UNCHANGED <<bookings, nextId>>

\* lines 143-158: Show.objects.get, BookingCreateSerializer.is_valid.
\* The Show table never changes, so both reads are one step.
BookRequest(r) ==
    /\ last = NoLast
    /\ req[r].pc = "idle"
    /\ (nextId - 1) + Cardinality({o \in Reqs : req[o].pc \in {"exists", "count", "create"}})
          < MaxBookings
    /\ \E i \in BookInputs :
          LET s == i.show_id
              n == i.seat_number
              q == [Idle EXCEPT !.kind = "book", !.pc = "exists",
                                !.show_id = s, !.seat_number = n,
                                !.solo = (Others(r) = {}),
                                !.alone = /\ validate_seat_number(n, s)
                                          /\ \A o \in Others(r) :
                                                ~(/\ req[o].kind = "book"
                                                  /\ req[o].show_id = s
                                                  /\ req[o].seat_number = n),
                                !.full = ShowFull(s),
                                !.race = IF ~SeatInShow(s, n) THEN "void"
                                         ELSE IF SeatActive(s, n) THEN "taken"
                                         ELSE "open"]
          IN IF s \notin Shows
               THEN Reject(r, q, 404, "Show not found")
               ELSE IF ~validate_seat_number(n, s)
                      THEN Reject(r, q, 400, "invalid seat_number")
                      ELSE Arrive(r, q)
    /\ UNCHANGED <<bookings, nextId>>

\* variant: the existence check is missing
BookExists_skip(r) ==
    /\ last = NoLast
    /\ req[r].pc = "exists"
    /\ Goto(r, "count")
    /\ UNCHANGED <<bookings, nextId>>

\* variant: the taken seat is answered with 409 Conflict
BookExists_conflict(r) ==
    /\ last = NoLast
    /\ req[r].pc = "exists"
    /\ IF ActiveFor(bookings, req[r].show_id, req[r].seat_number) # {}
         THEN Finish(r, 409, "already booked", NoBooking)
         ELSE Goto(r, "count")
    /\ UNCHANGED <<bookings, nextId>>

\* select_for_update().exists() on the active rows of the seat
BookExists(r) ==
    /\ last = NoLast
    /\ req[r].pc = "exists"
    /\ IF ActiveFor(bookings, req[r].show_id, req[r].seat_number) # {}
         THEN Finish(r, 400, "already booked", NoBooking)
         ELSE Goto(r, "count")
    /\ UNCHANGED <<bookings, nextId>>

\* variant: the capacity check is off by one
BookCount_strict(r) ==
    /\ last = NoLast
    /\ req[r].pc = "count"
    /\ IF total_booked(bookings, req[r].show_id) + 1 >= total_seats[req[r].show_id]
         THEN Finish(r, 400, "Show is fully booked", NoBooking)
         ELSE Goto(r, "create")
    /\ UNCHANGED <<bookings, nextId>>

\* total_booked >= show.total_seats, lines 177-186
BookCount(r) ==
    /\ last = NoLast
    /\ req[r].pc = "count"
    /\ IF total_booked(bookings, req[r].show_id) >= total_seats[req[r].show_id]
         THEN Finish(r, 400, "Show is fully booked", NoBooking)
         ELSE Goto(r, "create")
    /\ UNCHANGED <<bookings, nextId>>

\* Booking.objects.create(...): INSERT inside the atomic block; an
\* IntegrityError leaves the block through `except Exception`
BookCreate(r) ==
    /\ last = NoLast
    /\ req[r].pc = "create"
    /\ LET b == [id |-> nextId, user |-> UserOf(r), show |-> req[r].show_id,
                 seat_number |-> req[r].seat_number, status |-> "booked"]
       IN /\ ~PendingConflict(r, b)
          /\ IF UniqueViolation(bookings, b)
               THEN /\ Finish(r, 500, failure_body("book", "IntegrityError"), NoBooking)
                    /\ UNCHANGED nextId
               ELSE /\ req' = [req EXCEPT ![r].pc = "commit", ![r].booking = b]
                    /\ nextId' = nextId + 1
                    /\ last' = NoLast
    /\ UNCHANGED bookings

\* variant: the insert replaces the rows the seat already has
BookCommit_replace(r) ==
    /\ last = NoLast
    /\ req[r].pc = "commit"
    /\ bookings' = {o \in bookings : ~(/\ o.show = req[r].booking.show
                                       /\ o.seat_number = req[r].booking.seat_number)}
                      \cup {req[r].booking}
    /\ req' = [o \in Reqs |->
                 IF o = r THEN Idle
                 ELSE IF /\ req[o].kind = "book" /\ req[o].race = "open"
                         /\ req[o].show_id = req[r].show_id
                         /\ req[o].seat_number = req[r].seat_number
                        THEN [req[o] EXCEPT !.race = "lost"]
                        ELSE req[o]]
    /\ last' = Response(r, req[r], 201, "",
                        BookingSerializer(bookings', req[r].booking))
    /\ UNCHANGED nextId

\* leaving `with transaction.atomic()` through the return: COMMIT
BookCommit(r) ==
    /\ last = NoLast
    /\ req[r].pc = "commit"
    /\ bookings' = bookings \cup {req[r].booking}
    /\ req' = [o \in Reqs |->
                 IF o = r THEN Idle
                 ELSE IF /\ req[o].kind = "book" /\ req[o].race = "open"
                         /\ req[o].show_id = req[r].show_id
                         /\ req[o].seat_number = req[r].seat_number
                        THEN [req[o] EXCEPT !.race = "lost"]
                        ELSE req[o]]
    /\ last' = Response(r, req[r], 201, "",
                        BookingSerializer(bookings', req[r].booking))
    /\ UNCHANGED nextId

\* --------------------------------------------------- CancelBookingView.post
\* variant: the status check comes before the owner check
CancelRequest_statusfirst(r) ==
    /\ last = NoLast
    /\ req[r].pc = "idle"
    /\ \E id \in {i \in BookingIds : i <= nextId} :
          IF ~(\E b \in bookings : b.id = id)
            THEN Reject(r, [Idle EXCEPT !.kind = "cancel", !.booking_id = id,
                                        !.solo = (Others(r) = {})],
                        404, "Booking not found")
            ELSE LET booking == CHOOSE b \in bookings : b.id = id
                     q == [Idle EXCEPT !.kind = "cancel", !.pc = "save",
                                       !.booking_id = id, !.booking = booking,
                                       !.solo = (Others(r) = {}),
                                       !.race = IF booking.status = "booked"
                                                  THEN "open" ELSE "void"]
                 IN IF booking.status = "cancelled"
                      THEN Reject(r, q, 400, "Booking is already cancelled")
                      ELSE IF booking.user # UserOf(r)
                             THEN Reject(r, q, 403, "You can only cancel your own bookings")
                             ELSE Arrive(r, q)
    /\ UNCHANGED <<bookings, nextId>>

\* variant: the status check is missing
CancelRequest_nostatus(r) ==
    /\ last = NoLast
    /\ req[r].pc = "idle"
    /\ \E id \in {i \in BookingIds : i <= nextId} :
          IF ~(\E b \in bookings : b.id = id)
            THEN Reject(r, [Idle EXCEPT !.kind = "cancel", !.booking_id = id,
                                        !.solo = (Others(r) = {})],
                        404, "Booking not found")
            ELSE LET booking == CHOOSE b \in bookings : b.id = id
                     q == [Idle EXCEPT !.kind = "cancel", !.pc = "save",
                                       !.booking_id = id, !.booking = booking,
                                       !.solo = (Others(r) = {}),
                                       !.race = IF booking.status = "booked"
                                                  THEN "open" ELSE "void"]
                 IN IF booking.user # UserOf(r)
                      THEN Reject(r, q, 403, "You can only cancel your own bookings")
                      ELSE Arrive(r, q)
    /\ UNCHANGED <<bookings, nextId>>

\* lines 223-242: Booking.objects.get, then the owner and status checks on
\* the fetched instance
CancelRequest(r) ==
    /\ last = NoLast
    /\ req[r].pc = "idle"
    /\ \E id \in {i \in BookingIds : i <= nextId} :  \* one id never issued is enough
          IF ~(\E b \in bookings : b.id = id)
            THEN Reject(r, [Idle EXCEPT !.kind = "cancel", !.booking_id = id,
                                        !.solo = (Others(r) = {})],
                        404, "Booking not found")
            ELSE LET booking == CHOOSE b \in bookings : b.id = id
                     q == [Idle EXCEPT !.kind = "cancel", !.pc = "save",
                                       !.booking_id = id, !.booking = booking,
                                       !.solo = (Others(r) = {}),
                                       !.race = IF booking.status = "booked"
                                                  THEN "open" ELSE "void"]
                 IN IF booking.user # UserOf(r)
                      THEN Reject(r, q, 403, "You can only cancel your own bookings")
                      ELSE IF booking.status = "cancelled"
                             THEN Reject(r, q, 400, "Booking is already cancelled")
                             ELSE Arrive(r, q)
    /\ UNCHANGED <<bookings, nextId>>

\* variant: every booking of the caller for the show is cancelled
CancelSave_byuser(r) ==
    /\ last = NoLast
    /\ req[r].pc = "save"
    /\ LET b == [req[r].booking EXCEPT !.status = "cancelled"]
       IN /\ bookings' = {IF o.user = b.user /\ o.show = b.show
                            THEN [o EXCEPT !.status = "cancelled"] ELSE o : o \in bookings}
          /\ req' = [o \in Reqs |-> IF o = r THEN Idle ELSE Cancelled(req[o], b)]
          /\ last' = Response(r, req[r], 200, "", BookingSerializer(bookings', b))
    /\ UNCHANGED nextId

\* variant: cancelling removes the row
CancelSave_delete(r) ==
    /\ last = NoLast
    /\ req[r].pc = "save"
    /\ LET b == [req[r].booking EXCEPT !.status = "cancelled"]
       IN /\ bookings' = {o \in bookings : o.id # b.id}
          /\ req' = [o \in Reqs |-> IF o = r THEN Idle ELSE Cancelled(req[o], b)]
          /\ last' = Response(r, req[r], 200, "", BookingSerializer(bookings', b))
    /\ UNCHANGED nextId

\* booking.status = "cancelled"; booking.save(): UPDATE of every column of the
\* row with this id, from the instance fetched earlier
CancelSave(r) ==
    /\ last = NoLast
    /\ req[r].pc = "save"
    /\ LET b == [req[r].booking EXCEPT !.status = "cancelled"]
       IN IF UniqueViolation(bookings, b)
            THEN /\ Finish(r, 500, failure_body("cancel", "IntegrityError"), NoBooking)
                 /\ UNCHANGED bookings
            ELSE /\ bookings' = {o \in bookings : o.id # b.id} \cup {b}
                 /\ req' = [o \in Reqs |-> IF o = r THEN Idle ELSE Cancelled(req[o], b)]
                 /\ last' = Response(r, req[r], 200, "",
                                     BookingSerializer(bookings', b))
    /\ UNCHANGED nextId

\* the response leaves the server
Deliver ==
    /\ last # NoLast
    /\ last' = NoLast
    /\ UNCHANGED <<bookings, nextId, req>>

\* a response is delivered before the server takes its next step (the guard
\* last = NoLast of every other action); `last` is read by no step of the
\* views, so this orders the observations and removes no behaviour of the store
\* or of the requests
Next ==
    \/ \E r \in Reqs :
          \/ BookRequest(r)
          \/ BookExists(r)
          \/ BookCount(r)
          \/ BookCreate(r)
          \/ BookCommit(r)
          \/ CancelRequest(r)
          \/ CancelSave(r)
    \/ Deliver

Spec == Init /\ [][Next]_vars

TypeOK ==
    /\ nextId \in 1..(MaxBookings + 1)
    /\ \A b \in bookings : b.status \in STATUS_CHOICES /\ b.id \in 1..MaxBookings

\* -------------------------------------------------------- fair scheduling
\* Every request runs on a thread of its own and the store grants a lock that
\* is released: the next step of a request in flight (Serve) is taken when it
\* is possible again and again, and a response is delivered.  Clients need not
\* send requests.
Serve(r) ==
    \/ BookExists(r)
    \/ BookCount(r)
    \/ BookCreate(r)
    \/ BookCommit(r)
    \/ CancelSave(r)

Fairness ==
    /\ \A r \in Reqs : SF_vars(Serve(r))
    /\ WF_vars(Deliver)

SpecFair == Init /\ [][Next]_vars /\ Fairness

\* ------------------------------------------------- book requests only
\* three callers that book seats of show 1, each sending one request after
\* another, with up to three requests in flight at once
Callers == {1, 2, 3}

\* BookSeatView.post lines 143-158 for the callers: without cancels a seat is
\* booked at most once, so the rows are bounded by the seats and the arrivals
\* need no bound
BookArrive(r) ==
    /\ last = NoLast
    /\ r \in Callers
    /\ req[r].pc = "idle"
    /\ \E i \in {x \in BookInputs : x.show_id = 1} :
          LET s == i.show_id
              n == i.seat_number
              q == [Idle EXCEPT !.kind = "book", !.pc = "exists",
                                !.show_id = s, !.seat_number = n,
                                !.solo = (Others(r) = {}),
                                !.alone = /\ validate_seat_number(n, s)
                                          /\ \A o \in Others(r) :
                                                ~(/\ req[o].kind = "book"
                                                  /\ req[o].show_id = s
                                                  /\ req[o].seat_number = n),
                                !.full = ShowFull(s),
                                !.race = IF ~SeatInShow(s, n) THEN "void"
                                         ELSE IF SeatActive(s, n) THEN "taken"
                                         ELSE "open"]
          IN IF s \notin Shows
               THEN Reject(r, q, 404, "Show not found")
               ELSE IF ~validate_seat_number(n, s)
                      THEN Reject(r, q, 400, "invalid seat_number")
                      ELSE Arrive(r, q)
    /\ UNCHANGED <<bookings, nextId>>

NextBooks ==
    \/ \E r \in Reqs :
          \/ BookArrive(r)
          \/ BookExists(r)
          \/ BookCount(r)
          \/ BookCreate(r)
          \/ BookCommit(r)
    \/ Deliver

SpecBooks == Init /\ [][NextBooks]_vars

\* ------------------------------------------------------- store failures
\* A statement of the atomic block of book (lines 160-203), or its COMMIT,
\* raises OperationalError: the block is left through `except Exception`
\* (lines 205-209), the transaction is rolled back and an inserted row is
\* discarded; the id it took from the sequence is not given back.
BookFault(r) ==
    /\ last = NoLast
    /\ req[r].pc \in {"exists", "count", "create", "commit"}
    /\ Finish(r, 500, failure_body("book", "OperationalError"), NoBooking)
    /\ UNCHANGED <<bookings, nextId>>

\* booking.save() raises OperationalError (lines 244-260): nothing is written
CancelFault(r) ==
    /\ last = NoLast
    /\ req[r].pc = "save"
    /\ Finish(r, 500, failure_body("cancel", "OperationalError"), NoBooking)
    /\ UNCHANGED <<bookings, nextId>>

\* booking.save() succeeds and a query of BookingSerializer(booking).data
\* (the show, the user, the count of get_available_seats) raises
\* OperationalError, lines 246-260: cancel runs outside transaction.atomic(),
\* so the UPDATE is committed when the exception reaches `except Exception`
CancelResponseFault(r) ==
    /\ last = NoLast
    /\ req[r].pc = "save"
    /\ LET b == [req[r].booking EXCEPT !.status = "cancelled"]
       IN /\ ~UniqueViolation(bookings, b)
          /\ bookings' = {o \in bookings : o.id # b.id} \cup {b}
          /\ req' = [o \in Reqs |-> IF o = r THEN Idle ELSE Cancelled(req[o], b)]
          /\ last' = Response(r, req[r], 500,
                              failure_body("cancel", "OperationalError"), NoBooking)
    /\ UNCHANGED nextId

NextFaults ==
    \/ \E r \in Reqs :
          \/ BookRequest(r)
          \/ BookExists(r)
          \/ BookCount(r)
          \/ BookCreate(r)
          \/ BookCommit(r)
          \/ CancelRequest(r)
          \/ CancelSave(r)
          \/ BookFault(r)
          \/ CancelFault(r)
          \/ CancelResponseFault(r)
    \/ Deliver

SpecFaults == Init /\ [][NextFaults]_vars

\* ------------------------------------------------------------ properties
\* the step just taken answered a book / cancel request
Booked == last.kind = "book"
Cancelling == last.kind = "cancel"
Caller == last.user
SeatRows == ActiveFor(bookings, last.show_id, last.seat_number)

\* C1: in every reachable state each (show, seat_number) pair has at most one
\* Booking whose status is booked, whatever the interleaving of the requests.
C1_OneActivePerSeat ==
    \A s \in Shows, n \in SeatInputs : Cardinality(ActiveFor(bookings, s, n)) <= 1

\* a book request lost a race for a seat that is now held by another user
C1_Witness ==
    /\ Booked /\ last.race = "lost" /\ last.resp.status # 201
    /\ \E b \in SeatRows : b.user # Caller

\* C2: the number of booked Bookings of a show never exceeds total_seats, so
\* the derived available-seat count is never negative.
C2_WithinCapacity ==
    \A s \in Shows : /\ total_booked(bookings, s) <= total_seats[s]
                     /\ get_available_seats(bookings, s) >= 0

\* the last free seat of a show with several seats was booked by a request
\* that ran together with others
C2_Witness ==
    /\ Booked /\ ~last.solo /\ last.resp.status = 201
    /\ total_seats[last.show_id] > 1
    /\ get_available_seats(bookings, last.show_id) = 0

\* C3: of the book requests that race for one free, valid seat, the one that
\* commits first returns 201 and every other one does not; when each of them
\* has been answered the seat has exactly one active booking.
C3_ExactlyOneWinner ==
    /\ (Booked /\ last.race = "open") =>
          /\ last.resp.status = 201
          /\ Cardinality(SeatRows) = 1
    /\ (Booked /\ last.race = "lost") =>
          /\ last.resp.status # 201
          /\ Cardinality(SeatRows) = 1

\* the loser of a race between two users has been answered
C3_Witness ==
    /\ Booked /\ last.race = "lost" /\ ~last.solo
    /\ last.resp.status \in {400, 500}
    /\ \E b \in SeatRows : b.user # Caller /\ b.id = nextId - 1

\* C4 (as claimed): every book request that loses a race for a seat is answered
\* with 400 'already booked', never with 500 'Booking failed'.
C4_LoserGetsAlreadyBooked ==
    (Booked /\ last.race = "lost") =>
        /\ last.resp.status = 400
        /\ last.resp.error = "already booked"

\* C5 (as claimed): of two concurrent cancel requests of the owner for one
\* booked booking, the one that saves second is answered 400 'already
\* cancelled'.
C5_SecondCancelRejected ==
    (Cancelling /\ last.race = "lost") =>
        /\ last.resp.status = 400
        /\ last.resp.error = "Booking is already cancelled"

\* C6 (as claimed): a cancel request of the owner for a booked booking, with no
\* concurrent request, returns 200 and the booking becomes cancelled, whatever
\* was booked and cancelled on the show before.
C6_OwnerCancelSucceeds ==
    (/\ Cancelling /\ last.solo
     /\ last.booking.status = "booked"
     /\ last.booking.user = Caller) =>
        /\ last.resp.status = 200
        /\ \E b \in bookings : b.id = last.booking_id /\ b.status = "cancelled"

\* C7: a book request, with no concurrent request, for a seat whose booking was
\* cancelled by another user returns 201; the new booking belongs to the
\* caller, and every cancelled booking stays as it was.
C7_RebookAfterCancel ==
    [][(/\ last'.kind = "book" /\ last'.solo /\ last'.race = "open"
        /\ \E c \in bookings : /\ c.show = last'.show_id
                               /\ c.seat_number = last'.seat_number
                               /\ c.status = "cancelled"
                               /\ c.user # last'.user) =>
           /\ last'.resp.status = 201
           /\ last'.booking \in bookings'
           /\ last'.booking.user = last'.user
           /\ last'.booking.seat_number = last'.seat_number
           /\ last'.booking.status = "booked"
           /\ \A c \in bookings : c.status = "cancelled" => c \in bookings'
      ]_vars

\* the seat carries the cancelled booking of one user and the new booking of
\* the caller
C7_Witness ==
    /\ Booked /\ last.solo /\ last.resp.status = 201
    /\ last.booking \in bookings
    /\ \E c \in bookings : /\ c.show = last.show_id
                           /\ c.seat_number = last.seat_number
                           /\ c.status = "cancelled"
                           /\ c.user # Caller
                           /\ c.id < last.booking.id

\* C8: a book request for a seat that has a committed booked booking is
\* answered 400 'already booked', whoever sends it, and the step that answers
\* it leaves the Booking table as it was.
C8_TakenSeatRejected ==
    [][(last'.kind = "book" /\ last'.race = "taken") =>
           /\ last'.resp.status = 400
           /\ last'.resp.error = "already booked"
           /\ last'.resp.booking = NoBooking
           /\ bookings' = bookings
      ]_vars

\* the holder of the seat and another user have both been turned away
C8_Witness ==
    /\ Booked /\ last.race = "taken" /\ last.resp.error = "already booked"
    /\ \E b \in SeatRows : b.user # Caller

\* C9: a book request for an existing show whose seat_number is below 1 or
\* above total_seats is answered 400 with a validation error and creates no
\* row; no row with such a seat number ever exists.
C9_InvalidSeatRejected ==
    [][(/\ last'.kind = "book" /\ last'.show_id \in Shows
        /\ (last'.seat_number < 1 \/ last'.seat_number > total_seats[last'.show_id])) =>
           /\ last'.resp.status = 400
           /\ last'.resp.error = "invalid seat_number"
           /\ last'.resp.booking = NoBooking
           /\ bookings' = bookings
           /\ nextId' = nextId
      ]_vars

\* seat total_seats + 1 was refused on a ledger that already has bookings
C9_Witness ==
    /\ Booked /\ last.show_id \in Shows
    /\ last.seat_number = total_seats[last.show_id] + 1
    /\ last.resp.status = 400
    /\ bookings # {}

\* C10: a book request that arrives when the show has total_seats active
\* bookings is answered 400 and creates no Booking, for every seat number and
\* user, as long as no booking of the show is cancelled.
C10_FullShowRejects ==
    [][(last'.kind = "book" /\ last'.full) =>
           /\ last'.resp.status = 400
           /\ last'.resp.booking = NoBooking
           /\ bookings' = bookings
           /\ nextId' = nextId
      ]_vars

\* a valid seat of a full show was refused
C10_Witness ==
    /\ Booked /\ last.full /\ last.resp.status = 400
    /\ SeatInShow(last.show_id, last.seat_number)
    /\ total_booked(bookings, last.show_id) = total_seats[last.show_id]

\* C11: a cancel request of a user who does not own the booking is answered
\* 403, whether the booking is booked or cancelled, and the step that answers
\* it leaves every row of the Booking table as it was.
C11_NonOwnerForbidden ==
    [][(/\ last'.kind = "cancel"
        /\ \E b \in bookings : b.id = last'.booking_id /\ b.user # last'.user) =>
           /\ last'.resp.status = 403
           /\ last'.resp.error = "You can only cancel your own bookings"
           /\ last'.resp.booking = NoBooking
           /\ bookings' = bookings
      ]_vars

\* another user's cancelled booking was named, next to a booked one
C11_Witness ==
    /\ Cancelling /\ last.resp.status = 403
    /\ \E b \in bookings : /\ b.id = last.booking_id
                           /\ b.user # Caller
                           /\ b.status = "cancelled"
    /\ \E b \in bookings : b.status = "booked"

\* C12: a cancel request of the owner for a booking that is cancelled when the
\* request fetches it is answered 400 'already cancelled', and the step that
\* answers it leaves every row of the Booking table as it was.
C12_AlreadyCancelled ==
    [][(/\ last'.kind = "cancel"
        /\ last'.booking.status = "cancelled"
        /\ last'.booking.user = last'.user) =>
           /\ last'.resp.status = 400
           /\ last'.resp.error = "Booking is already cancelled"
           /\ last'.resp.booking = NoBooking
           /\ bookings' = bookings
           /\ \E b \in bookings' : b.id = last'.booking_id /\ b.status = "cancelled"
      ]_vars

\* the owner named their cancelled booking while the seat was booked again
C12_Witness ==
    /\ Cancelling /\ last.resp.error = "Booking is already cancelled"
    /\ last.booking.user = Caller
    /\ \E b \in bookings : /\ b.id # last.booking_id
                           /\ b.show = last.booking.show
                           /\ b.seat_number = last.booking.seat_number
                           /\ b.status = "booked"

\* C13: a book request for a valid seat that is free when it arrives, with no
\* other book request for that seat in flight at any time before it is
\* answered, returns 201 whatever the book requests for other seats do; of
\* the requests that race for a seat exactly one returns 201, so that with
\* total_seats = 2 and concurrent requests for seats 1, 2 and 1 the show ends
\* with two active bookings.
C13_OtherSeatsDoNotInterfere ==
    /\ (Booked /\ last.alone /\ last.race # "taken") =>
          /\ last.resp.status = 201
          /\ last.booking \in SeatRows
    /\ (Booked /\ last.race \in {"open", "lost"}) =>
          /\ Cardinality(SeatRows) = 1
          /\ (last.resp.status = 201) = (last.race = "open")
          /\ total_booked(bookings, last.show_id) =
                Cardinality({n \in 1..total_seats[last.show_id] :
                                SeatActive(last.show_id, n)})
          /\ total_booked(bookings, last.show_id) <= total_seats[last.show_id]

\* the request for seat 2 of the two-seat show is answered 201 while two
\* requests for seat 1 are in flight, one of them already inserted
C13_Witness ==
    /\ Booked /\ last.alone /\ last.resp.status = 201
    /\ last.show_id = 1 /\ last.seat_number = 2
    /\ \E o, p \in Reqs :
          /\ o # p
          /\ req[o].kind = "book" /\ req[o].show_id = 1 /\ req[o].seat_number = 1
          /\ req[p].kind = "book" /\ req[p].show_id = 1 /\ req[p].seat_number = 1
          /\ req[o].pc = "commit" /\ req[p].pc = "create"

\* C14: a book request that names an absent show is answered 404 'Show not
\* found', also when its seat number is invalid, and no request for an
\* existing show is; a cancel request that names an absent booking is
\* answered 404 'Booking not found'; both leave the Booking table as it was.
C14_NotFound ==
    [][/\ (last'.kind = "book" /\ last'.show_id \notin Shows) =>
             /\ last'.resp.status = 404
             /\ last'.resp.error = "Show not found"
             /\ bookings' = bookings /\ nextId' = nextId
       /\ (last'.kind = "book" /\ last'.show_id \in Shows) =>
             last'.resp.status # 404
       /\ (last'.kind = "cancel"
             /\ ~(\E b \in bookings : b.id = last'.booking_id)) =>
             /\ last'.resp.status = 404
             /\ last'.resp.error = "Booking not found"
             /\ bookings' = bookings /\ nextId' = nextId
       /\ (last'.kind = "cancel"
             /\ \E b \in bookings : b.id = last'.booking_id) =>
             last'.resp.status # 404
      ]_vars

\* an absent show was named together with a seat number that no show
\* accepts, on a ledger that has bookings
C14_Witness ==
    /\ Booked /\ last.resp.status = 404
    /\ last.show_id \notin Shows /\ last.seat_number < 1
    /\ bookings # {}

\* C15 (as claimed): the body of a 201 answer of book carries the id of the
\* created booking, the requested seat_number and status booked, and the body
\* of a 200 answer of cancel carries status cancelled.
C15_ResponseCarriesBooking ==
    /\ (Booked /\ last.resp.status = 201) =>
          /\ {"id", "seat_number", "status"} \subseteq DOMAIN last.resp.booking
          /\ last.resp.booking.id = last.booking.id
          /\ last.resp.booking.seat_number = last.seat_number
          /\ last.resp.booking.status = "booked"
    /\ (Cancelling /\ last.resp.status = 200) =>
          /\ "status" \in DOMAIN last.resp.booking
          /\ last.resp.booking.status = "cancelled"

\* C16: no step removes a row of the Booking table, and a row that is
\* cancelled before a step is cancelled after it: the status of a booking
\* moves from booked to cancelled only.
C16_NeverDeletedNeverRevived ==
    [][\A b \in bookings :
          \E c \in bookings' : /\ c.id = b.id
                                /\ (b.status = "cancelled" => c.status = "cancelled")
      ]_vars

\* a cancel saved the row it had read before another cancel of the same
\* booking was saved, and the row is there and cancelled
C16_Witness ==
    /\ Cancelling /\ last.race = "lost" /\ last.resp.status = 200
    /\ \E b \in bookings : b.id = last.booking_id /\ b.status = "cancelled"

\* C17 (as claimed): the body of a 500 answer does not depend on the internal
\* exception: it is the body that any other store error would have produced
\* for the same request.
C17_FailureBodyGeneric ==
    (last.resp.status = 500) =>
        \A e \in StoreErrors : last.resp.error = failure_body(last.kind, e)

\* C18: the step that answers a book request with 201 adds exactly one row
\* to the Booking table, with a new id, user = the caller, show and
\* seat_number as requested and status booked, and changes no other row.
C18_BookAddsOneRow ==
    [][(last'.kind = "book" /\ last'.resp.status = 201) =>
           \E b \in bookings' :
              /\ bookings' = bookings \cup {b}
              /\ \A o \in bookings : o.id # b.id
              /\ b.user = last'.user
              /\ b.show = last'.show_id
              /\ b.seat_number = last'.seat_number
              /\ b.status = "booked"
      ]_vars

\* a seat that carries a cancelled booking was booked again while the other
\* rows stayed
C18_Witness ==
    /\ Booked /\ last.resp.status = 201
    /\ Cardinality(bookings) = 2
    /\ \E c \in bookings : /\ c.status = "cancelled"
                           /\ c.show = last.show_id
                           /\ c.seat_number = last.seat_number
    /\ \E b \in SeatRows : b.user = Caller

\* C19: every step keeps the user, show and seat_number of every booking, and
\* the step that answers a cancel request adds no row and changes no row but
\* the one it names; this holds also when the cancel saves a row that it read
\* before another request committed.
C19_CancelTouchesOnlyStatus ==
    [][/\ \A b \in bookings :
             \E c \in bookings' : /\ c.id = b.id
                                   /\ c.user = b.user
                                   /\ c.show = b.show
                                   /\ c.seat_number = b.seat_number
       /\ (last'.kind = "cancel") =>
             /\ {c.id : c \in bookings'} = {b.id : b \in bookings}
             /\ \A b \in bookings : b.id # last'.booking_id => b \in bookings'
      ]_vars

\* a cancel saved the row it had read before another cancel of the booking
\* was saved and before the seat was booked again; the new booking of the seat
\* is still booked
C19_Witness ==
    /\ Cancelling /\ last.race = "lost" /\ last.resp.status = 200
    /\ \E b \in bookings : /\ b.id # last.booking_id
                           /\ b.show = last.booking.show
                           /\ b.seat_number = last.booking.seat_number
                           /\ b.status = "booked"

\* C20 (as claimed): no book request is ever answered 'Show is fully booked'.
C20_CapacityBranchUnreachable ==
    ~(Booked /\ last.resp.error = "Show is fully booked")

\* C21: in every reachable state each (show, seat_number) pair has at most
\* one Booking whose status is cancelled, and so at most two Bookings.
C21_OneCancelledPerSeat ==
    \A s \in Shows, n \in SeatInputs :
        /\ Cardinality({b \in bookings : /\ b.show = s /\ b.seat_number = n
                                          /\ b.status = "cancelled"}) <= 1
        /\ Cardinality(ActiveFor_anystatus(bookings, s, n)) <= 2

\* the cancel of the second booking of a seat was stopped by the constraint:
\* the seat keeps its cancelled booking and its booked one
C21_Witness ==
    /\ Cancelling /\ last.resp.status = 500
    /\ \E b, c \in bookings : /\ b.id = last.booking_id /\ b.status = "booked"
                              /\ c.show = b.show /\ c.seat_number = b.seat_number
                              /\ c.status = "cancelled"

\* C22 (as claimed): the step that answers a book or cancel request with 500
\* leaves the Booking table as it was, and every step that changes the table
\* answers its request with 201 or 200: a request that ends with 500 has
\* created no Booking and changed no status.
C22_FailureLeavesLedger ==
    [][/\ (last'.resp.status = 500) => bookings' = bookings
       /\ (bookings' # bookings) => last'.resp.status \in {200, 201}
      ]_vars

\* C23: under fair scheduling every request in flight is answered: the step
\* that ends it returns one response with status 200, 201, 400, 403, 404 or
\* 500, and a book request that waits for the uncommitted insert of another
\* request does not wait forever.
C23_EveryRequestAnswered ==
    /\ \A r \in Reqs : InFlight(r) ~> ~InFlight(r)
    /\ [][\A r \in Reqs :
             (InFlight(r) /\ req'[r].pc = "idle") =>
                /\ last'.user = UserOf(r) /\ last'.kind = req[r].kind
                /\ last'.resp.status \in {200, 201, 400, 403, 404, 500}
                /\ \A o \in Reqs \ {r} : req'[o].pc = req[o].pc
         ]_vars

\* a book request has reached its INSERT while another request holds the
\* uncommitted row of the same seat
C23_Witness ==
    \E r, o \in Reqs :
        /\ r # o
        /\ req[r].pc = "create" /\ req[o].pc = "commit"
        /\ req[r].show_id = req[o].show_id
        /\ req[r].seat_number = req[o].seat_number
====
